---- MODULE Spec2Model ----
(***************************************************************************)
(* Queue governance engine of the listening room                           *)
(* (src/src/services/queueEngine.ts): the pure functions addTrackToQueue,  *)
(* applyVote, skipCurrentTrack, approveTrack, rejectTrack and moveTrack,   *)
(* and a room that applies them to its queue and suggested queue.          *)
(*                                                                         *)
(* A QueueTrack is a record                                                *)
(*   [id, addedById, addedAt, votes, votedBy, status].                     *)
(* addedAt is an ISO timestamp string; votedBy is a function from the      *)
(* users holding a live vote to their direction (the source's absent       *)
(* votedBy and {} are both the empty function); status is "none" where the *)
(* source leaves it undefined. The clock now counts milliseconds from the  *)
(* first timestamp.                                                        *)
(***************************************************************************)
EXTENDS Integers, Sequences, FiniteSets, TLC

\* ---- bounds of the model ------------------------------------------------
MaxQueue == 3
MaxRoom == 2
MaxLiveVotes == 2
MaxTime == 1
MaxCampfire == 4
MaxModeration == 3
MaxPlayed == 2
MaxPending == 2

\* ---- small input sets ---------------------------------------------------
HostId == "host"
Users == {"host", "alice"}
Voters == {"alice"}
Contributors == {"host", "alice", "bob"}
TrackIds == {"t1", "t2", "t3", "t4"}
IdOrder == <<"t1", "t2", "t3", "t4">>
CatalogIds == {"t1", "t2"}
FirstId == {"t1"}
RoomModes == {"campfire", "spotlight", "openFloor"}
Directions == {1, -1}
MoveDirections == {"up", "down"}

VARIABLES queue, suggestedQueue, roomMode, now, call, tracing, client

vars == <<queue, suggestedQueue, roomMode, now, call, tracing, client>>

\* ---- helpers ------------------------------------------------------------
EmptyVotes == [u \in {} |-> 0]

RECURSIVE SumVotes(_)
SumVotes(votedBy) ==
  IF DOMAIN votedBy = {} THEN 0
  ELSE LET u == CHOOSE x \in DOMAIN votedBy : TRUE
       IN votedBy[u] + SumVotes([x \in DOMAIN votedBy \ {u} |-> votedBy[x]])

\* the timestamps of the first milliseconds of the room
IsoStamps ==
  <<"2026-01-01T00:00:00.000Z", "2026-01-01T00:00:00.001Z",
    "2026-01-01T00:00:00.002Z", "2026-01-01T00:00:00.003Z">>

\* new Date().toISOString() at clock value ms
ToISOString(ms) == IsoStamps[ms + 1]

\* new Date(iso).getTime(), in milliseconds from the first timestamp
GetTime(iso) == (CHOOSE i \in 1..Len(IsoStamps) : IsoStamps[i] = iso) - 1

\* handleAddTrack: the entry a user creates from a searched track
NewTrack(id, userId, at) ==
  [id |-> id, addedById |-> userId, addedAt |-> ToISOString(at),
   votes |-> 0, votedBy |-> EmptyVotes, status |-> "none"]

\* s.filter((t) => t.id !== trackId)
WithoutId(s, trackId) == SelectSeq(s, LAMBDA t : t.id # trackId)

\* s.findIndex((t) => t.id === trackId): 0-based, -1 when absent
FindIndexOfId(s, trackId) ==
  IF \E i \in 1..Len(s) : s[i].id = trackId
  THEN (CHOOSE i \in 1..Len(s) :
          /\ s[i].id = trackId
          /\ \A j \in 1..(i - 1) : s[j].id # trackId) - 1
  ELSE -1

\* ---- interleaveRoundRobin ----------------------------------------------
\* first-seen order of the contributors (contributorOrder)
RECURSIVE ContributorOrder(_, _)
ContributorOrder(q, seen) ==
  IF q = <<>> THEN seen
  ELSE IF \E i \in 1..Len(seen) : seen[i] = Head(q).addedById
       THEN ContributorOrder(Tail(q), seen)
       ELSE ContributorOrder(Tail(q), Append(seen, Head(q).addedById))

\* GroupsOf as it would be if the loop took tracks.pop() instead of
\* tracks.shift(): each contributor's tracks come out last first
ReverseSeq(s) == [i \in 1..Len(s) |-> s[Len(s) + 1 - i]]

GroupsOfPopped(q) ==
  [c \in {q[i].addedById : i \in 1..Len(q)} |->
     ReverseSeq(SelectSeq(q, LAMBDA t : t.addedById = c))]

\* groups: contributor -> their tracks in queue order
GroupsOf(q) ==
  [c \in {q[i].addedById : i \in 1..Len(q)} |->
     SelectSeq(q, LAMBDA t : t.addedById = c)]

\* one pass of the inner for loop over contributorOrder, from index i
RECURSIVE RoundPass(_, _, _, _)
RoundPass(order, i, groups, result) ==
  IF i > Len(order) THEN [groups |-> groups, result |-> result]
  ELSE LET c == order[i]
       IN IF Len(groups[c]) > 0
          THEN RoundPass(order, i + 1,
                         [groups EXCEPT ![c] = Tail(groups[c])],
                         Append(result, Head(groups[c])))
          ELSE RoundPass(order, i + 1, groups, result)

\* RoundLoop with the while written as an if: one pass only
RoundLoopOnce(order, groups, result, total) ==
  IF total - Len(result) > 0
  THEN RoundPass(order, 1, groups, result).result
  ELSE result

\* the while (remaining > 0) loop
RECURSIVE RoundLoop(_, _, _, _)
RoundLoop(order, groups, result, total) ==
  IF total - Len(result) > 0
  THEN LET p == RoundPass(order, 1, groups, result)
       IN RoundLoop(order, p.groups, p.result, total)
  ELSE result

\* interleaveRoundRobin that returns on any number of contributors
interleaveSkipped(q) == q

interleaveRoundRobin(q) ==
  IF Len(q) <= 1 THEN q
  ELSE LET order == ContributorOrder(q, <<>>)
           groups == GroupsOf(q)
       IN IF Len(order) <= 1 THEN q
          ELSE RoundLoop(order, groups, <<>>, Len(q))

\* ---- sortByVotes --------------------------------------------------------
\* the comparator without its addedAt tiebreaker
CompareVotesOnly(a, b) == b.votes - a.votes

\* the comparator of rest.sort: negative when a goes before b
CompareVotes(a, b) ==
  LET votesDiff == b.votes - a.votes
  IN IF votesDiff # 0 THEN votesDiff ELSE GetTime(a.addedAt) - GetTime(b.addedAt)

\* Array.prototype.sort is stable: x goes behind everything that does not
\* compare greater than it
RECURSIVE InsertSorted(_, _)
InsertSorted(x, s) ==
  IF s = <<>> THEN <<x>>
  ELSE IF CompareVotes(Head(s), x) <= 0
       THEN <<Head(s)>> \o InsertSorted(x, Tail(s))
       ELSE <<x>> \o s

RECURSIVE StableSort(_, _)
StableSort(s, acc) ==
  IF s = <<>> THEN acc ELSE StableSort(Tail(s), InsertSorted(Head(s), acc))

\* sortByVotes that sorts the whole queue, now-playing included
sortByVotesUnpinned(q) ==
  IF Len(q) <= 2 THEN q ELSE StableSort(q, <<>>)

sortByVotes(q) ==
  IF Len(q) <= 2 THEN q
  ELSE <<Head(q)>> \o StableSort(Tail(q), <<>>)

\* ---- addTrackToQueue ----------------------------------------------------
\* addTrackToQueue that loses a guest's track in Spotlight mode
addTrackToQueueDropsGuest(q, sq, track, mode, hostId) ==
  CASE mode = "campfire" ->
         [queue |-> interleaveRoundRobin(Append(q, track)),
          suggestedQueue |-> sq, destination |-> "queue"]
    [] mode = "spotlight" ->
         IF track.addedById = hostId
         THEN [queue |-> Append(q, track),
               suggestedQueue |-> sq, destination |-> "queue"]
         ELSE [queue |-> q, suggestedQueue |-> sq, destination |-> "suggested"]
    [] OTHER ->
         [queue |-> Append(q, track),
          suggestedQueue |-> sq, destination |-> "queue"]

\* addTrackToQueue that files a guest's track without marking it pending
addTrackToQueueNoPending(q, sq, track, mode, hostId) ==
  CASE mode = "campfire" ->
         [queue |-> interleaveRoundRobin(Append(q, track)),
          suggestedQueue |-> sq, destination |-> "queue"]
    [] mode = "spotlight" ->
         IF track.addedById = hostId
         THEN [queue |-> Append(q, track),
               suggestedQueue |-> sq, destination |-> "queue"]
         ELSE [queue |-> q,
               suggestedQueue |-> Append(sq, track),
               destination |-> "suggested"]
    [] OTHER ->
         [queue |-> Append(q, track),
          suggestedQueue |-> sq, destination |-> "queue"]

\* addTrackToQueue that interleaves in every mode
addTrackToQueueInterleaves(q, sq, track, mode, hostId) ==
  CASE mode = "spotlight" /\ track.addedById # hostId ->
         [queue |-> q,
          suggestedQueue |-> Append(sq, [track EXCEPT !.status = "pending"]),
          destination |-> "suggested"]
    [] OTHER ->
         [queue |-> interleaveRoundRobin(Append(q, track)),
          suggestedQueue |-> sq, destination |-> "queue"]

addTrackToQueue(q, sq, track, mode, hostId) ==
  CASE mode = "campfire" ->
         [queue |-> interleaveRoundRobin(Append(q, track)),
          suggestedQueue |-> sq, destination |-> "queue"]
    [] mode = "spotlight" ->
         IF track.addedById = hostId
         THEN [queue |-> Append(q, track),
               suggestedQueue |-> sq, destination |-> "queue"]
         ELSE [queue |-> q,
               suggestedQueue |-> Append(sq, [track EXCEPT !.status = "pending"]),
               destination |-> "suggested"]
    [] OTHER ->
         [queue |-> Append(q, track),
          suggestedQueue |-> sq, destination |-> "queue"]

\* ---- applyVote ----------------------------------------------------------
\* the body of the map callback for the voted track
\* VoteOn with the sign of the opposite-direction delta wrong
VoteOnWrongSign(t, userId, direction) ==
  IF userId \in DOMAIN t.votedBy
  THEN [t EXCEPT !.votes = t.votes + (-direction),
                 !.votedBy = [x \in DOMAIN t.votedBy \ {userId} |-> t.votedBy[x]]]
  ELSE [t EXCEPT !.votes = t.votes + direction,
                 !.votedBy = [x \in DOMAIN t.votedBy \cup {userId} |->
                                IF x = userId THEN direction ELSE t.votedBy[x]]]

\* VoteOn that ignores a second tap in the same direction
VoteOnNoUndo(t, userId, direction) ==
  IF userId \in DOMAIN t.votedBy
  THEN IF t.votedBy[userId] = direction THEN t
       ELSE [t EXCEPT !.votes = t.votes + (-t.votedBy[userId]),
                      !.votedBy = [x \in DOMAIN t.votedBy \ {userId} |-> t.votedBy[x]]]
  ELSE [t EXCEPT !.votes = t.votes + direction,
                 !.votedBy = [x \in DOMAIN t.votedBy \cup {userId} |->
                                IF x = userId THEN direction ELSE t.votedBy[x]]]

\* VoteOn that switches an opposite vote in one call, as the doc comment of
\* applyVote words it
VoteOnSwitch(t, userId, direction) ==
  IF userId \in DOMAIN t.votedBy
  THEN IF t.votedBy[userId] = direction
       THEN [t EXCEPT !.votes = t.votes + (-direction),
                      !.votedBy = [x \in DOMAIN t.votedBy \ {userId} |-> t.votedBy[x]]]
       ELSE [t EXCEPT !.votes = t.votes + 2 * direction,
                      !.votedBy = [t.votedBy EXCEPT ![userId] = direction]]
  ELSE [t EXCEPT !.votes = t.votes + direction,
                 !.votedBy = [x \in DOMAIN t.votedBy \cup {userId} |->
                                IF x = userId THEN direction ELSE t.votedBy[x]]]

\* VoteOn that ignores a tap in the direction opposite to the live vote
VoteOnSticky(t, userId, direction) ==
  IF userId \in DOMAIN t.votedBy
  THEN IF t.votedBy[userId] = direction
       THEN [t EXCEPT !.votes = t.votes + (-direction),
                      !.votedBy = [x \in DOMAIN t.votedBy \ {userId} |-> t.votedBy[x]]]
       ELSE t
  ELSE [t EXCEPT !.votes = t.votes + direction,
                 !.votedBy = [x \in DOMAIN t.votedBy \cup {userId} |->
                                IF x = userId THEN direction ELSE t.votedBy[x]]]

VoteOn(t, userId, direction) ==
  IF userId \in DOMAIN t.votedBy
  THEN LET prev == t.votedBy[userId]
           rest == [x \in DOMAIN t.votedBy \ {userId} |-> t.votedBy[x]]
       IN IF prev = direction
          THEN [t EXCEPT !.votes = t.votes + (-direction), !.votedBy = rest]
          ELSE [t EXCEPT !.votes = t.votes + (-prev), !.votedBy = rest]
  ELSE [t EXCEPT !.votes = t.votes + direction,
                 !.votedBy = [x \in DOMAIN t.votedBy \cup {userId} |->
                                IF x = userId THEN direction ELSE t.votedBy[x]]]

\* applyVote that never re-sorts
applyVoteNoResort(q, trackId, userId, direction, mode) ==
  [i \in 1..Len(q) |->
     IF q[i].id # trackId THEN q[i] ELSE VoteOn(q[i], userId, direction)]

\* applyVote that re-sorts in every mode
applyVoteAlwaysSorts(q, trackId, userId, direction, mode) ==
  sortByVotes([i \in 1..Len(q) |->
                 IF q[i].id # trackId THEN q[i]
                 ELSE VoteOn(q[i], userId, direction)])

applyVote(q, trackId, userId, direction, mode) ==
  LET updated == [i \in 1..Len(q) |->
                    IF q[i].id # trackId THEN q[i]
                    ELSE VoteOn(q[i], userId, direction)]
  IN IF mode = "openFloor" THEN sortByVotes(updated) ELSE updated

\* ---- skipCurrentTrack ---------------------------------------------------
\* skipCurrentTrack without the Spotlight check
skipCurrentTrackAnyone(q, userId, hostId, mode) ==
  IF Len(q) = 0 THEN [queue |-> q, skipped |-> FALSE]
  ELSE [queue |-> Tail(q), skipped |-> TRUE]

\* skipCurrentTrack that lets nobody skip in Spotlight mode
skipCurrentTrackNobody(q, userId, hostId, mode) ==
  IF Len(q) = 0 THEN [queue |-> q, skipped |-> FALSE]
  ELSE IF mode = "spotlight"
       THEN [queue |-> q, skipped |-> FALSE]
       ELSE [queue |-> Tail(q), skipped |-> TRUE]

\* skipCurrentTrack that drops the last track instead of the first
skipCurrentTrackPop(q, userId, hostId, mode) ==
  IF Len(q) = 0 THEN [queue |-> q, skipped |-> FALSE]
  ELSE IF mode = "spotlight" /\ userId # hostId
       THEN [queue |-> q, skipped |-> FALSE]
       ELSE [queue |-> SubSeq(q, 1, Len(q) - 1), skipped |-> TRUE]

skipCurrentTrack(q, userId, hostId, mode) ==
  IF Len(q) = 0 THEN [queue |-> q, skipped |-> FALSE]
  ELSE IF mode = "spotlight" /\ userId # hostId
       THEN [queue |-> q, skipped |-> FALSE]
       ELSE [queue |-> Tail(q), skipped |-> TRUE]

\* ---- approveTrack / rejectTrack ----------------------------------------
\* approveTrack that leaves the status of the track as it was
approveTrackKeepsStatus(q, sq, trackId) ==
  LET idx == FindIndexOfId(sq, trackId)
  IN IF idx < 0 THEN [queue |-> q, suggestedQueue |-> sq]
     ELSE [queue |-> Append(q, sq[idx + 1]),
           suggestedQueue |-> WithoutId(sq, trackId)]

\* approveTrack without the early return: a track that is not there is
\* appended as an entry that carries a status only
approveTrackUnchecked(q, sq, trackId) ==
  LET idx == FindIndexOfId(sq, trackId)
      track == IF idx < 0 THEN NewTrack("", "", 0) ELSE sq[idx + 1]
  IN [queue |-> Append(q, [track EXCEPT !.status = "approved"]),
      suggestedQueue |-> WithoutId(sq, trackId)]

\* approveTrack that signs the approved track with the host
approveTrackAsHost(q, sq, trackId) ==
  LET idx == FindIndexOfId(sq, trackId)
  IN IF idx < 0 THEN [queue |-> q, suggestedQueue |-> sq]
     ELSE [queue |-> Append(q, [sq[idx + 1] EXCEPT !.status = "approved",
                                                   !.addedById = HostId]),
           suggestedQueue |-> WithoutId(sq, trackId)]

\* approveTrack that leaves the approved track among the suggestions
approveTrackKeepsSuggestion(q, sq, trackId) ==
  LET idx == FindIndexOfId(sq, trackId)
  IN IF idx < 0 THEN [queue |-> q, suggestedQueue |-> sq]
     ELSE [queue |-> Append(q, [sq[idx + 1] EXCEPT !.status = "approved"]),
           suggestedQueue |-> sq]

approveTrack(q, sq, trackId) ==
  LET idx == FindIndexOfId(sq, trackId)
  IN IF idx < 0 THEN [queue |-> q, suggestedQueue |-> sq]
     ELSE [queue |-> Append(q, [sq[idx + 1] EXCEPT !.status = "approved"]),
           suggestedQueue |-> WithoutId(sq, trackId)]

rejectTrack(sq, trackId) == WithoutId(sq, trackId)

\* ---- moveTrack ----------------------------------------------------------
moveTrack(q, trackId, direction) ==
  LET idx == FindIndexOfId(q, trackId)
      targetIdx == IF direction = "up" THEN idx - 1 ELSE idx + 1
  IN IF idx < 0 THEN q
     ELSE IF idx = 0 THEN q
     ELSE IF targetIdx <= 0 THEN q
     ELSE IF targetIdx >= Len(q) THEN q
     ELSE [q EXCEPT ![idx + 1] = q[targetIdx + 1], ![targetIdx + 1] = q[idx + 1]]

\* ---- the room -----------------------------------------------------------
NoTrack == NewTrack("", "", 0)

\* the record of the last engine call: its arguments, the state it was given
\* and the flag it returned; a room that is not tracing keeps no record
Call(op, trackId, userId, direction, moveDir, track, destination, skipped) ==
  IF ~tracing THEN call ELSE
  [op |-> op, trackId |-> trackId, userId |-> userId, direction |-> direction,
   moveDir |-> moveDir, track |-> track,
   destination |-> destination, skipped |-> skipped,
   mode |-> roomMode, queue |-> queue, suggestedQueue |-> suggestedQueue]

IdsIn(s) == {s[i].id : i \in 1..Len(s)}

\* ids no entry of the room carries
FreshIds == TrackIds \ (IdsIn(queue) \cup IdsIn(suggestedQueue))

\* the first such id of the catalogue, if any
NextId ==
  {IdOrder[i] : i \in {j \in 1..Len(IdOrder) :
     /\ IdOrder[j] \in FreshIds
     /\ \A k \in 1..(j - 1) : IdOrder[k] \notin FreshIds}}

RECURSIVE LiveVotes(_)
LiveVotes(q) ==
  IF q = <<>> THEN 0 ELSE Cardinality(DOMAIN Head(q).votedBy) + LiveVotes(Tail(q))

\* the screen's own state beside the two queues: the played history, the
\* isAdvancingRef guard with the setQueue updaters of advanceQueue not yet
\* run and its reset timers not yet fired, the skipCooldownRef flag with its
\* timers, and the number of tracks advanceQueue has removed since the guard
\* was last set
InitClient ==
  [playedHistory |-> <<>>, isAdvancing |-> FALSE, pendingAdvance |-> 0,
   resetTimers |-> 0, skipCooldown |-> FALSE, cooldownTimers |-> 0,
   advanced |-> 0, refused |-> 0]

InitRoom(modes, traced) ==
  /\ tracing = traced
  /\ client = InitClient
  /\ queue = <<>>
  /\ suggestedQueue = <<>>
  /\ roomMode \in modes
  /\ now = 0
  /\ call = [op |-> "init", trackId |-> "", userId |-> "", direction |-> 0,
             moveDir |-> "", track |-> NoTrack,
             destination |-> "", skipped |-> FALSE,
             mode |-> roomMode, queue |-> <<>>, suggestedQueue |-> <<>>]

Init == InitRoom(RoomModes, FALSE)

\* a user adds a searched track (handleAddTrack, then the engine)
AddTrack(ids, users, maxLen) ==
  \E id \in ids, u \in users :
    LET track == NewTrack(id, u, now)
        r == addTrackToQueue(queue, suggestedQueue, track, roomMode, HostId)
    IN /\ Len(r.queue) + Len(r.suggestedQueue) <= maxLen
       /\ queue' = r.queue
       /\ suggestedQueue' = r.suggestedQueue
       /\ call' = Call("addTrackToQueue", id, u, 0, "", track, r.destination, FALSE)
       /\ UNCHANGED <<roomMode, now, tracing, client>>

\* a user taps a vote button
ApplyVote(ids, users) ==
  \E id \in ids, u \in users, d \in Directions :
    LET r == applyVote(queue, id, u, d, roomMode)
    IN /\ LiveVotes(r) <= MaxLiveVotes
       /\ queue' = r
       /\ call' = Call("applyVote", id, u, d, "", NoTrack, "", FALSE)
       /\ UNCHANGED <<suggestedQueue, roomMode, now, tracing, client>>

\* a user asks to skip the playing track
SkipCurrentTrack(users) ==
  \E u \in users :
    LET r == skipCurrentTrack(queue, u, HostId, roomMode)
    IN /\ queue' = r.queue
       /\ call' = Call("skipCurrentTrack", "", u, 0, "", NoTrack, "", r.skipped)
       /\ UNCHANGED <<suggestedQueue, roomMode, now, tracing, client>>

ApproveTrack(ids) ==
  \E id \in ids :
    LET r == approveTrack(queue, suggestedQueue, id)
    IN /\ queue' = r.queue
       /\ suggestedQueue' = r.suggestedQueue
       /\ call' = Call("approveTrack", id, "", 0, "", NoTrack, "", FALSE)
       /\ UNCHANGED <<roomMode, now, tracing, client>>

RejectTrack(ids) ==
  \E id \in ids :
    /\ suggestedQueue' = rejectTrack(suggestedQueue, id)
    /\ call' = Call("rejectTrack", id, "", 0, "", NoTrack, "", FALSE)
    /\ UNCHANGED <<queue, roomMode, now, tracing, client>>

MoveTrack(ids) ==
  \E id \in ids, dir \in MoveDirections :
    /\ queue' = moveTrack(queue, id, dir)
    /\ call' = Call("moveTrack", id, "", 0, dir, NoTrack, "", FALSE)
    /\ UNCHANGED <<suggestedQueue, roomMode, now, tracing, client>>

\* the host picks another room mode (handleChangeMode)
ChangeMode ==
  \E m \in RoomModes \ {roomMode} :
    /\ roomMode' = m
    /\ call' = Call("changeMode", "", "", 0, "", NoTrack, "", FALSE)
    /\ UNCHANGED <<queue, suggestedQueue, now, tracing, client>>

\* time passes between two additions
Tick ==
  /\ now < MaxTime
  /\ now' = now + 1
  /\ UNCHANGED <<queue, suggestedQueue, roomMode, call, tracing, client>>

\* ---- the session room screen (mock transport) ----------------------------
\* the played history keeps the last MAX_PLAYED_HISTORY tracks
MAX_PLAYED_HISTORY == 50

\* s.slice(0, n)
Slice(s, n) == SubSeq(s, 1, IF Len(s) < n THEN Len(s) ELSE n)

\* advanceQueue without its isAdvancingRef check
advanceQueueUnguarded(c) ==
  [c EXCEPT !.isAdvancing = TRUE, !.pendingAdvance = @ + 1,
            !.advanced = IF c.isAdvancing THEN @ ELSE 0,
            !.refused = IF c.isAdvancing THEN @ ELSE 0]

\* advanceQueue up to its setQueue call: the guard is checked and set and
\* the updater is handed to React
advanceQueue(c) ==
  IF c.isAdvancing THEN [c EXCEPT !.refused = @ + 1]
  ELSE [c EXCEPT !.isAdvancing = TRUE, !.pendingAdvance = @ + 1,
                 !.advanced = 0, !.refused = 0]

\* room for one more advance within the bounds of the model
CanAdvance ==
  /\ client.pendingAdvance < MaxPending
  /\ client.refused < MaxPending
  /\ Len(client.playedHistory) < MaxPlayed

\* the local user taps skip (handleSkip); the 'track-skipped' event the mock
\* bus echoes carries the user's own id and is ignored by the listener
HandleSkip(users) ==
  \E u \in users :
    /\ CanAdvance
    /\ ~client.skipCooldown
    /\ IF skipCurrentTrack(queue, u, HostId, roomMode).skipped
       THEN client' = [advanceQueue(client) EXCEPT !.skipCooldown = TRUE,
                                                   !.cooldownTimers = @ + 1]
       ELSE client' = client
    /\ UNCHANGED <<queue, suggestedQueue, roomMode, now, call, tracing>>

\* a 'track-skipped' event of another user arrives
RemoteSkip ==
  /\ CanAdvance
  /\ client' = advanceQueue(client)
  /\ UNCHANGED <<queue, suggestedQueue, roomMode, now, call, tracing>>

\* the playback engine reports the end of the track (onTrackEnd)
TrackEnd ==
  /\ CanAdvance
  /\ client' = advanceQueue(client)
  /\ UNCHANGED <<queue, suggestedQueue, roomMode, now, call, tracing>>

\* React runs the updater advanceQueue gave to setQueue
AdvanceUpdater ==
  /\ client.pendingAdvance > 0
  /\ IF Len(queue) = 0
     THEN /\ client' = [client EXCEPT !.pendingAdvance = @ - 1,
                                      !.isAdvancing = FALSE]
          /\ queue' = queue
     ELSE /\ client' = [client EXCEPT
                          !.pendingAdvance = @ - 1,
                          !.playedHistory = Slice(<<queue[1]>> \o @, MAX_PLAYED_HISTORY),
                          !.resetTimers = @ + 1,
                          !.advanced = @ + 1]
          /\ queue' = Tail(queue)
  /\ UNCHANGED <<suggestedQueue, roomMode, now, call, tracing>>

\* the 300 ms timer of advanceQueue fires
ResetTimerFires ==
  /\ client.resetTimers > 0
  /\ client' = [client EXCEPT !.resetTimers = @ - 1, !.isAdvancing = FALSE]
  /\ UNCHANGED <<queue, suggestedQueue, roomMode, now, call, tracing>>

\* the 1000 ms timer of handleSkip fires
CooldownTimerFires ==
  /\ client.cooldownTimers > 0
  /\ client' = [client EXCEPT !.cooldownTimers = @ - 1, !.skipCooldown = FALSE]
  /\ UNCHANGED <<queue, suggestedQueue, roomMode, now, call, tracing>>

\* the local user taps a vote button (handleVote): the optimistic setQueue,
\* then voteTrack, whose 'vote-cast' event the mock bus hands to the
\* listener of the screen at once
HandleVote(ids, users) ==
  \E id \in ids, u \in users, d \in Directions :
    LET optimistic == applyVote(queue, id, u, d, roomMode)
        echoed == applyVote(optimistic, id, u, d, roomMode)
    IN /\ LiveVotes(echoed) <= MaxLiveVotes
       /\ queue' = echoed
       /\ call' = Call("handleVote", id, u, d, "", NoTrack, "", FALSE)
       /\ UNCHANGED <<suggestedQueue, roomMode, now, tracing, client>>

\* the host approves a suggestion shown on the screen (handleApproveTrack):
\* the engine result is set, then approveTrackEvent, whose 'track-approved'
\* event the mock bus hands to the listener of the screen at once
HandleApproveTrack ==
  \E id \in IdsIn(suggestedQueue) :
    LET result == approveTrack(queue, suggestedQueue, id)
        approvedTrack == result.queue[Len(result.queue)]
    IN /\ queue' = Append(result.queue, [approvedTrack EXCEPT !.status = "approved"])
       /\ suggestedQueue' = WithoutId(result.suggestedQueue, id)
       /\ call' = Call("handleApproveTrack", id, "", 0, "", NoTrack, "", FALSE)
       /\ UNCHANGED <<roomMode, now, tracing, client>>

Next ==
  \/ AddTrack(CatalogIds, Users, MaxRoom)
  \/ ApplyVote(CatalogIds, Users)
  \/ SkipCurrentTrack(Users)
  \/ ApproveTrack(CatalogIds)
  \/ RejectTrack(CatalogIds)
  \/ MoveTrack(CatalogIds)
  \/ ChangeMode

Spec == Init /\ [][Next]_vars

\* the host alone fills the queue, a guest votes, the mode changes, time passes
NextVote ==
  \/ AddTrack(NextId, {HostId}, MaxQueue)
  \/ ApplyVote(TrackIds, Voters)
  \/ ChangeMode
  \/ Tick

SpecVote == InitRoom(RoomModes, TRUE) /\ [][NextVote]_vars

\* a room that stays in Open Floor mode
NextOpenFloor ==
  \/ AddTrack(FreshIds, {HostId}, MaxQueue)
  \/ ApplyVote(TrackIds, Users)
  \/ SkipCurrentTrack(Users)

SpecOpenFloor == InitRoom({"openFloor"}, TRUE) /\ [][NextOpenFloor]_vars

\* host and guest fill the queue, one guest votes, the mode changes
NextPinned ==
  \/ AddTrack(NextId, Users, MaxQueue)
  \/ ApplyVote(TrackIds, Voters)
  \/ ChangeMode

SpecPinned == InitRoom(RoomModes, TRUE) /\ [][NextPinned]_vars

\* a room that stays in Campfire mode, three contributors
NextCampfire ==
  \/ AddTrack(CatalogIds, Contributors, MaxCampfire)
  \/ SkipCurrentTrack({HostId})
  \/ MoveTrack(CatalogIds)

SpecCampfire == InitRoom({"campfire"}, TRUE) /\ [][NextCampfire]_vars

\* host and guest add catalogue tracks, skip, moderate and reorder in every
\* mode; the same track may be added more than once
NextModeration ==
  \/ AddTrack(CatalogIds, Users, MaxModeration)
  \/ SkipCurrentTrack(Users)
  \/ ApproveTrack(CatalogIds)
  \/ RejectTrack(CatalogIds)
  \/ MoveTrack(CatalogIds)
  \/ ChangeMode

SpecModeration == InitRoom(RoomModes, TRUE) /\ [][NextModeration]_vars

\* the host fills the queue, a guest votes, both skip, the mode changes
NextSkip ==
  \/ AddTrack(NextId, {HostId}, MaxQueue)
  \/ ApplyVote(TrackIds, Voters)
  \/ SkipCurrentTrack(Users)
  \/ ChangeMode

SpecSkip == InitRoom(RoomModes, TRUE) /\ [][NextSkip]_vars

\* every addition brings an id no entry of the room carries; host and guest
\* add, a guest votes on the first track of the catalogue, both skip, the
\* host moderates and reorders, the mode changes
NextFresh ==
  \/ AddTrack(NextId, Users, MaxModeration)
  \/ ApplyVote(FirstId, Voters)
  \/ SkipCurrentTrack(Users)
  \/ ApproveTrack(TrackIds)
  \/ RejectTrack(TrackIds)
  \/ MoveTrack(TrackIds)
  \/ ChangeMode

SpecFresh == InitRoom(RoomModes, TRUE) /\ [][NextFresh]_vars

\* host and guest add catalogue tracks, the same one more than once, and
\* vote on them; the mode changes
NextSameTrack ==
  \/ AddTrack(CatalogIds, Users, MaxRoom)
  \/ ApplyVote(CatalogIds, Users)
  \/ ChangeMode

SpecSameTrack == InitRoom(RoomModes, TRUE) /\ [][NextSameTrack]_vars

\* the screen on the mock transport: host and guest add tracks, vote, the
\* host approves, the mode changes
NextMockClient ==
  \/ AddTrack(NextId, Users, MaxQueue)
  \/ HandleVote(TrackIds, Users)
  \/ HandleApproveTrack
  \/ ChangeMode

SpecMockClient == InitRoom(RoomModes, TRUE) /\ [][NextMockClient]_vars

\* the screen advancing its queue: the host adds tracks, users skip, other
\* users' skips arrive, tracks end, React runs the updaters, timers fire
NextAdvance ==
  \/ AddTrack(NextId, {HostId}, MaxRoom)
  \/ HandleSkip(Users)
  \/ RemoteSkip
  \/ TrackEnd
  \/ AdvanceUpdater
  \/ ResetTimerFires
  \/ CooldownTimerFires
  \/ ChangeMode

\* React runs every updater it was given, and a timer that was set fires
SpecAdvance ==
  /\ InitRoom(RoomModes, FALSE)
  /\ [][NextAdvance]_vars
  /\ WF_vars(AdvanceUpdater)
  /\ WF_vars(ResetTimerFires)

\* ==== properties =========================================================
IsVote == call.op = "applyVote"
IsAdd == call.op = "addTrackToQueue"

Has(q, id) == id \in IdsIn(q)
EntryOf(q, id) == q[CHOOSE i \in 1..Len(q) : q[i].id = id]
PriorVote(t, userId) == IF userId \in DOMAIN t.votedBy THEN t.votedBy[userId] ELSE 0

\* the prior vote of the calling user on the voted track, 0 when none
CallPrior == PriorVote(EntryOf(call.queue, call.trackId), call.userId)

\* the queue addTrackToQueue interleaves in Campfire mode
Appended == Append(call.queue, call.track)

ContributorsOf(q) == {q[i].addedById : i \in 1..Len(q)}
TracksOf(q, c) == SelectSeq(q, LAMBDA t : t.addedById = c)
FirstSeen(q, c) ==
  CHOOSE i \in 1..Len(q) :
    q[i].addedById = c /\ \A j \in 1..(i - 1) : q[j].addedById # c
\* the how-many-th track of its contributor the track at position p is
Turn(q, p) == Cardinality({k \in 1..p : q[k].addedById = q[p].addedById})
Count(q, e) == Cardinality({i \in 1..Len(q) : q[i] = e})
OrderChanged == [i \in 1..Len(queue) |-> queue[i].id] # [i \in 1..Len(call.queue) |-> call.queue[i].id]

\* C1: every entry of the main queue has votes equal to the sum of the
\* values in its votedBy map, after any sequence of engine operations in
\* any modes.
TallyMatchesRegistry ==
  \A i \in 1..Len(queue) : queue[i].votes = SumVotes(queue[i].votedBy)

\* an approved suggestion carrying one upvote and one downvote
TallyMatchesRegistryWitness ==
  \E i \in 1..Len(queue) :
    /\ queue[i].status = "approved"
    /\ DOMAIN queue[i].votedBy = Users
    /\ queue[i].votes = 0

\* the step is a vote that repeats the arguments of the vote before it
RepeatsLastVote ==
  /\ IsVote
  /\ call'.op = "applyVote"
  /\ call'.queue = queue
  /\ call'.trackId = call.trackId
  /\ call'.userId = call.userId
  /\ call'.direction = call.direction
  /\ Has(call.queue, call.trackId)

RestoredByRepeat ==
  /\ EntryOf(queue', call.trackId).votes = EntryOf(call.queue, call.trackId).votes
  /\ EntryOf(queue', call.trackId).votedBy = EntryOf(call.queue, call.trackId).votedBy

\* C2 as stated: two applyVote calls in a row with the same track, voter and
\* direction return the entry to the tally and registry it had before the
\* first call, whatever the voter's prior vote was.
VoteTwiceRestoresAnyPrior ==
  [][RepeatsLastVote => RestoredByRepeat]_vars

\* C2, amended: two applyVote calls in a row with the same track, voter and
\* direction return the entry to the tally and registry it had before the
\* first call when the voter had no prior vote or a prior vote in that same
\* direction.
VoteTwiceRestores ==
  [][(RepeatsLastVote /\ CallPrior # -call.direction) => RestoredByRepeat]_vars

\* a second tap in the same direction has just retracted the vote
VoteTwiceRestoresWitness ==
  /\ IsVote
  /\ Has(call.queue, call.trackId)
  /\ CallPrior = call.direction
  /\ call.userId \notin DOMAIN EntryOf(queue, call.trackId).votedBy
  /\ call.mode = "openFloor"

ResortPostcondition ==
  (IsVote /\ call.mode = "openFloor") =>
    /\ \A i, j \in 2..Len(queue) :
         i < j => /\ queue[i].votes >= queue[j].votes
                  /\ queue[i].votes = queue[j].votes =>
                       GetTime(queue[i].addedAt) <= GetTime(queue[j].addedAt)
    /\ Len(queue) > 0 => queue[1].id = call.queue[1].id

\* a tie that stood in the wrong addedAt order has been put right
ResortPostconditionWitness ==
  /\ IsVote
  /\ call.mode = "openFloor"
  /\ Len(queue) = 3
  /\ queue[2].votes = queue[3].votes
  /\ GetTime(queue[2].addedAt) < GetTime(queue[3].addedAt)
  /\ call.queue[2].id = queue[3].id

\* C5: applyVote with a trackId that is not in the queue returns the queue
\* it was given, in every mode.
UnknownVoteIsNoOp ==
  (IsVote /\ ~Has(call.queue, call.trackId)) => queue = call.queue

\* C6 as stated: in a room that stays in Open Floor mode the entries behind
\* position 0 are in descending votes order in every state.
OpenFloorDescending ==
  \A i, j \in 2..Len(queue) : i < j => queue[i].votes >= queue[j].votes

\* C6, amended: in a room that stays in Open Floor mode the entries behind
\* position 0 are in descending votes order, except that an entry with 0
\* votes may stand behind entries with negative votes (an addition appends
\* without re-sorting).
OpenFloorDescendingButAppended ==
  \A i, j \in 2..Len(queue) :
    i < j => \/ queue[i].votes >= queue[j].votes
             \/ queue[i].votes < 0 /\ queue[j].votes = 0

\* a track has just been appended behind a downvoted one
OpenFloorDescendingButAppendedWitness ==
  /\ IsAdd
  /\ Len(queue) = 3
  /\ queue[2].votes < 0
  /\ queue[3].votes = 0

\* C7: with at least two contributors the Campfire interleave visits the
\* contributors cycle by cycle in the order of their first appearance in the
\* input, one track per contributor that has one left, and two neighbours
\* have the same contributor only when every track from there on is theirs.
InterleaveFair ==
  (IsAdd /\ call.mode = "campfire" /\ Cardinality(ContributorsOf(Appended)) >= 2) =>
    /\ \A p, r \in 1..Len(queue) :
         p < r =>
           \/ Turn(queue, p) < Turn(queue, r)
           \/ /\ Turn(queue, p) = Turn(queue, r)
              /\ FirstSeen(Appended, queue[p].addedById)
                   < FirstSeen(Appended, queue[r].addedById)
    /\ \A p \in 1..(Len(queue) - 1) :
         queue[p].addedById = queue[p + 1].addedById =>
           \A k \in p..Len(queue) : queue[k].addedById = queue[p].addedById

\* A1, A2 in the queue and B adds B1: the queue is A1, B1, A2
InterleaveFairWitness ==
  /\ IsAdd
  /\ call.mode = "campfire"
  /\ Len(call.queue) = 2
  /\ call.queue[1].addedById = call.queue[2].addedById
  /\ call.track.addedById # call.queue[1].addedById
  /\ queue = <<call.queue[1], call.track, call.queue[2]>>

\* C8: a Campfire addition keeps every contributor's own tracks in the
\* order they have in the input queue with the new track appended.
InterleaveKeepsOwnOrder ==
  (IsAdd /\ call.mode = "campfire") =>
    \A c \in Contributors : TracksOf(queue, c) = TracksOf(Appended, c)

\* the interleave has moved tracks of a contributor who has two different ones
InterleaveKeepsOwnOrderWitness ==
  /\ IsAdd
  /\ call.mode = "campfire"
  /\ queue # Appended
  /\ \E c \in Contributors :
       /\ Len(TracksOf(queue, c)) >= 2
       /\ TracksOf(queue, c)[1].id # TracksOf(queue, c)[2].id

\* C9: a Campfire addition returns exactly the tracks of the input queue and
\* the new track, each as often as it occurs there, and with a single
\* contributor it returns the input queue with the new track appended.
InterleaveIsReshuffle ==
  (IsAdd /\ call.mode = "campfire") =>
    /\ Len(queue) = Len(Appended)
    /\ \A i \in 1..Len(Appended) :
         Count(queue, Appended[i]) = Count(Appended, Appended[i])
    /\ Cardinality(ContributorsOf(Appended)) = 1 => queue = Appended

\* four tracks, one contributor exhausted after the first cycle
InterleaveIsReshuffleWitness ==
  /\ IsAdd
  /\ call.mode = "campfire"
  /\ Len(queue) = 4
  /\ queue # Appended
  /\ queue[3].addedById = queue[4].addedById

\* C10: addTrackToQueue and applyVote, in any mode and on any track, return
\* a queue whose position 0 holds the track it held in the queue given.
NowPlayingPinned ==
  ((IsAdd \/ IsVote) /\ Len(call.queue) > 0) =>
    /\ Len(queue) > 0
    /\ queue[1].id = call.queue[1].id
    /\ queue[1].addedById = call.queue[1].addedById
    /\ queue[1].addedAt = call.queue[1].addedAt

\* a downvote on the playing track in Open Floor mode, better voted tracks
\* behind it
NowPlayingPinnedWitness ==
  /\ IsVote
  /\ call.mode = "openFloor"
  /\ Len(queue) = 3
  /\ call.trackId = queue[1].id
  /\ queue[1].votes < queue[3].votes
  /\ queue[1].addedById # queue[2].addedById

IsSkip == call.op = "skipCurrentTrack"
IsApprove == call.op = "approveTrack"
IsReject == call.op = "rejectTrack"
IsMove == call.op = "moveTrack"

\* the entry a guest's track becomes in the suggested queue
Pending(t) ==
  [id |-> t.id, addedById |-> t.addedById, addedAt |-> t.addedAt,
   votes |-> t.votes, votedBy |-> t.votedBy, status |-> "pending"]

\* s is the sequence before with the entry t behind it
EndsWith(s, before, t) ==
  /\ Len(s) = Len(before) + 1
  /\ \A i \in 1..Len(before) : s[i] = before[i]
  /\ s[Len(s)] = t

\* s is the sequence before without its first entry
WithoutFront(s, before) ==
  /\ Len(s) = Len(before) - 1
  /\ \A i \in 1..Len(s) : s[i] = before[i + 1]

\* C11: in every mode addTrackToQueue puts the new track into exactly one of
\* the queue and the suggested queue, reports that one as the destination,
\* leaves the other as it was, and the two together hold exactly one track
\* more than before.
AdmissionTotality ==
  IsAdd =>
    /\ Len(queue) + Len(suggestedQueue)
         = Len(call.queue) + Len(call.suggestedQueue) + 1
    /\ \/ /\ call.destination = "queue"
          /\ Count(queue, call.track) = Count(call.queue, call.track) + 1
          /\ suggestedQueue = call.suggestedQueue
       \/ /\ call.destination = "suggested"
          /\ Count(suggestedQueue, Pending(call.track))
               = Count(call.suggestedQueue, Pending(call.track)) + 1
          /\ queue = call.queue

\* a guest's track has gone to a suggested queue that already held one,
\* beside a queue that is not empty
AdmissionTotalityWitness ==
  /\ IsAdd
  /\ call.destination = "suggested"
  /\ Len(call.queue) > 0
  /\ Len(call.suggestedQueue) > 0

\* C12: in Spotlight mode a track added by anyone but the host goes to the
\* end of the suggested queue with status pending and destination suggested;
\* the queue and the suggestions already there, and their order, are as
\* before.
GuestTrackIsSuggested ==
  (IsAdd /\ call.mode = "spotlight" /\ call.track.addedById # HostId) =>
    /\ call.destination = "suggested"
    /\ queue = call.queue
    /\ EndsWith(suggestedQueue, call.suggestedQueue, Pending(call.track))

\* a second suggestion has been filed behind the first, the queue holds a
\* track
GuestTrackIsSuggestedWitness ==
  /\ IsAdd
  /\ call.mode = "spotlight"
  /\ call.track.addedById # HostId
  /\ Len(call.queue) > 0
  /\ Len(suggestedQueue) = 2
  /\ suggestedQueue[1].id # suggestedQueue[2].id

\* C13: in Open Floor mode, and for the host in Spotlight mode,
\* addTrackToQueue returns the queue it was given with the new track as its
\* last entry, every entry before it in its place, destination queue, and
\* the suggested queue as it was.
AdmissionAppends ==
  (IsAdd /\ (\/ call.mode = "openFloor"
             \/ call.mode = "spotlight" /\ call.track.addedById = HostId)) =>
    /\ call.destination = "queue"
    /\ EndsWith(queue, call.queue, call.track)
    /\ suggestedQueue = call.suggestedQueue

\* a guest's track has been appended in Open Floor mode behind two tracks of
\* the host, the second of them voted down
AdmissionAppendsWitness ==
  /\ IsAdd
  /\ call.mode = "openFloor"
  /\ Len(call.queue) = 2
  /\ call.queue[1].addedById = HostId
  /\ call.queue[2].addedById = HostId
  /\ call.queue[2].votes < 0
  /\ call.track.addedById # HostId

\* C14: in Spotlight mode skipCurrentTrack called by anyone but the host
\* returns skipped = false and the queue it was given, so that such calls
\* never remove the track at the front.
GuestSkipDenied ==
  (IsSkip /\ call.mode = "spotlight" /\ call.userId # HostId) =>
    /\ ~call.skipped
    /\ queue = call.queue

\* a guest has asked to skip in Spotlight mode with tracks in the queue
GuestSkipDeniedWitness ==
  /\ IsSkip
  /\ call.mode = "spotlight"
  /\ call.userId # HostId
  /\ Len(call.queue) >= 2
  /\ Len(queue) >= 2

\* C15 as stated: in Spotlight mode skipCurrentTrack called by the host
\* always returns skipped = true and the queue without its first entry.
HostSkipAlwaysSucceeds ==
  (IsSkip /\ call.mode = "spotlight" /\ call.userId = HostId) =>
    /\ call.skipped
    /\ WithoutFront(queue, call.queue)

\* C15, amended: in Spotlight mode skipCurrentTrack called by the host on a
\* queue that is not empty returns skipped = true and the queue without its
\* first entry.
HostSkipSucceeds ==
  (IsSkip /\ call.mode = "spotlight" /\ call.userId = HostId
     /\ Len(call.queue) > 0) =>
    /\ call.skipped
    /\ WithoutFront(queue, call.queue)

\* the host has skipped the first of three tracks in Spotlight mode
HostSkipSucceedsWitness ==
  /\ IsSkip
  /\ call.mode = "spotlight"
  /\ call.userId = HostId
  /\ Len(call.queue) = 3
  /\ Len(queue) = 2

\* C16: in Campfire and Open Floor mode skipCurrentTrack on a queue that is
\* not empty returns skipped = true for every caller, and the queue without
\* its first entry: the other entries in their order, votes and votedBy
\* included.
OpenSkipSucceeds ==
  (IsSkip /\ call.mode \in {"campfire", "openFloor"} /\ Len(call.queue) > 0) =>
    /\ call.skipped
    /\ WithoutFront(queue, call.queue)

\* a guest has skipped in Campfire mode; two tracks are left, one of them
\* carrying a vote
OpenSkipSucceedsWitness ==
  /\ IsSkip
  /\ call.mode = "campfire"
  /\ call.userId # HostId
  /\ Len(queue) = 2
  /\ \E i \in 1..2 : queue[i].votes # 0 /\ DOMAIN queue[i].votedBy # {}

\* the position of the first entry of s with the id
FirstWith(s, id) ==
  CHOOSE k \in 1..Len(s) : s[k].id = id /\ \A j \in 1..(k - 1) : s[j].id # id

\* the entry t with status approved
Approved(t) ==
  [id |-> t.id, addedById |-> t.addedById, addedAt |-> t.addedAt,
   votes |-> t.votes, votedBy |-> t.votedBy, status |-> "approved"]

\* s is the sequence before with exactly the entry at one position gone,
\* an entry with the id
OneGone(s, before, id) ==
  \E k \in 1..Len(before) :
    /\ before[k].id = id
    /\ Len(s) = Len(before) - 1
    /\ \A i \in 1..Len(s) : s[i] = IF i < k THEN before[i] ELSE before[i + 1]

\* C17: approveTrack with a trackId found in the suggested queue returns the
\* suggested queue without that id, the entries with other ids unchanged and
\* in their order, and the queue it was given with the found entry, status
\* approved, as its last entry.
ApproveMovesToQueue ==
  (IsApprove /\ Has(call.suggestedQueue, call.trackId)) =>
    /\ ~Has(suggestedQueue, call.trackId)
    /\ suggestedQueue
         = SelectSeq(call.suggestedQueue, LAMBDA t : t.id # call.trackId)
    /\ EndsWith(queue, call.queue,
                Approved(call.suggestedQueue[FirstWith(call.suggestedQueue,
                                                       call.trackId)]))

\* the second of two suggestions has been approved into a queue that held a
\* track
ApproveMovesToQueueWitness ==
  /\ IsApprove
  /\ Len(call.suggestedQueue) = 2
  /\ call.suggestedQueue[1].id # call.trackId
  /\ call.suggestedQueue[2].id = call.trackId
  /\ Len(call.queue) > 0
  /\ Len(suggestedQueue) = 1
  /\ queue[Len(queue)].status = "approved"

\* C18: rejectTrack and approveTrack with a trackId found in a suggested
\* queue built by additions remove exactly one entry from it, the others
\* staying in place and in order; a rejected entry does not go to the queue.
OneEntryPerModeration ==
  /\ (IsReject /\ Has(call.suggestedQueue, call.trackId)) =>
       /\ OneGone(suggestedQueue, call.suggestedQueue, call.trackId)
       /\ queue = call.queue
  /\ (IsApprove /\ Has(call.suggestedQueue, call.trackId)) =>
       OneGone(suggestedQueue, call.suggestedQueue, call.trackId)

\* C19: approveTrack with a trackId that is not in the suggested queue
\* returns both sequences as given, rejectTrack the suggested queue as
\* given, moveTrack with a trackId that is not in the queue the queue as
\* given, and skipCurrentTrack on an empty queue skipped = false and the
\* empty queue, in every mode and for every caller.
AbsentReferenceIsNoOp ==
  /\ (IsApprove /\ ~Has(call.suggestedQueue, call.trackId)) =>
       queue = call.queue /\ suggestedQueue = call.suggestedQueue
  /\ (IsReject /\ ~Has(call.suggestedQueue, call.trackId)) =>
       queue = call.queue /\ suggestedQueue = call.suggestedQueue
  /\ (IsMove /\ ~Has(call.queue, call.trackId)) =>
       queue = call.queue /\ suggestedQueue = call.suggestedQueue
  /\ (IsSkip /\ Len(call.queue) = 0) =>
       ~call.skipped /\ queue = <<>> /\ suggestedQueue = call.suggestedQueue

\* approveTrack has been called with the id of a track that is in the queue
\* and not among the suggestions waiting
AbsentReferenceIsNoOpWitness ==
  /\ IsApprove
  /\ Len(call.suggestedQueue) > 0
  /\ ~Has(call.suggestedQueue, call.trackId)
  /\ Has(call.queue, call.trackId)
  /\ Len(queue) = Len(call.queue)

\* C20: moveTrack never changes the entry at position 0, and it returns the
\* queue as given when called with the id of the entry at position 0, with
\* the id of the entry at position 1 and up, or with the id of the last
\* entry and down.
MoveBoundarySafety ==
  (IsMove /\ Len(call.queue) > 0) =>
    /\ Len(queue) = Len(call.queue)
    /\ queue[1] = call.queue[1]
    /\ call.trackId = call.queue[1].id => queue = call.queue
    /\ (Len(call.queue) >= 2 /\ call.trackId = call.queue[2].id
          /\ call.moveDir = "up") => queue = call.queue
    /\ (call.trackId = call.queue[Len(call.queue)].id
          /\ call.moveDir = "down") => queue = call.queue

\* the sequence s with the entries at positions p and n exchanged
Swapped(s, p, n) == [s EXCEPT ![p] = s[n], ![n] = s[p]]

\* C21: moveTrack called with the id of an entry at position i >= 1 that no
\* boundary rule blocks (i >= 2 for up, i below the last position for down)
\* returns the queue with that entry and its neighbour in the direction
\* exchanged and every other position as it was.
MoveIsAdjacentSwap ==
  IsMove =>
    \A p \in 2..Len(call.queue) :
      (/\ call.queue[p].id = call.trackId
       /\ call.moveDir = "up" => p >= 3
       /\ call.moveDir = "down" => p < Len(call.queue)) =>
        queue = Swapped(call.queue, p,
                        IF call.moveDir = "up" THEN p - 1 ELSE p + 1)

\* the order of the tracks in a queue
OrderOf(q) ==
  [i \in 1..Len(q) |->
     [id |-> q[i].id, addedById |-> q[i].addedById, addedAt |-> q[i].addedAt]]

\* C22: an applyVote call in Campfire or Spotlight mode returns the tracks
\* in the order it was given them, whatever votes they carry; so does any
\* sequence of such calls.
VoteKeepsOrderElsewhere ==
  (IsVote /\ call.mode \in {"campfire", "spotlight"}) =>
    OrderOf(queue) = OrderOf(call.queue)

\* in Campfire mode the last of three tracks has been voted above the one
\* before it and stays behind it
VoteKeepsOrderElsewhereWitness ==
  /\ IsVote
  /\ call.mode = "campfire"
  /\ Len(queue) = 3
  /\ call.trackId = queue[3].id
  /\ queue[3].votes > queue[2].votes
  /\ queue[3].votes # call.queue[3].votes

\* the ids of both sequences of a room
AllIds(q, sq) == IdsIn(q) \cup IdsIn(sq)

\* C23: when every addition brings an id that is in neither sequence, no id
\* is ever in both the queue and the suggested queue or twice in one of
\* them, and the ids of the room are those it had before the call, with
\* the added id after an addition, without the first id of the queue after
\* a skip that happened, without the rejected id after the rejection of a
\* suggestion.
OneHomePerEntry ==
  /\ IdsIn(queue) \cap IdsIn(suggestedQueue) = {}
  /\ Cardinality(IdsIn(queue)) = Len(queue)
  /\ Cardinality(IdsIn(suggestedQueue)) = Len(suggestedQueue)
  /\ AllIds(queue, suggestedQueue) =
       LET before == AllIds(call.queue, call.suggestedQueue)
       IN CASE IsAdd -> before \cup {call.track.id}
            [] IsSkip /\ call.skipped -> before \ {call.queue[1].id}
            [] IsReject /\ Has(call.suggestedQueue, call.trackId) ->
                 before \ {call.trackId}
            [] OTHER -> before

\* a suggestion has been approved into a queue that held a track, another
\* suggestion still waiting
OneHomePerEntryWitness ==
  /\ IsApprove
  /\ Has(call.suggestedQueue, call.trackId)
  /\ Has(queue, call.trackId)
  /\ Len(queue) = 2
  /\ Len(suggestedQueue) = 1

\* C24: no two entries of the queue carry the same id and no two entries of
\* the suggested queue do, in every state of a room whose users may add a
\* searched track that is already there.
TrackIdsUnique ==
  /\ Cardinality(IdsIn(queue)) = Len(queue)
  /\ Cardinality(IdsIn(suggestedQueue)) = Len(suggestedQueue)

\* C25: the comparator of sortByVotes never returns 0 for two different
\* entries behind position 0, and sortByVotes returns the same queue
\* whichever order those entries are given in.
ResortIsTotal ==
  \A i, j \in 2..Len(queue) :
    (i # j /\ queue[i] # queue[j]) =>
      /\ CompareVotes(queue[i], queue[j]) # 0
      /\ sortByVotes(Swapped(queue, i, j)) = sortByVotes(queue)

\* id, addedById and addedAt of the entries of both sequences
CreationFields(q, sq) ==
  {[id |-> q[i].id, addedById |-> q[i].addedById, addedAt |-> q[i].addedAt] :
     i \in 1..Len(q)}
  \cup
  {[id |-> sq[i].id, addedById |-> sq[i].addedById, addedAt |-> sq[i].addedAt] :
     i \in 1..Len(sq)}

\* C26: after every engine call each entry of the queue and of the
\* suggested queue carries the id, addedById and addedAt of an entry that
\* was there before the call or, after an addition, of the track added: the
\* pending copy, the approved copy, a voted, moved, interleaved or re-sorted
\* entry keeps the addedById and addedAt it was admitted with.
CreationFieldsKept ==
  CreationFields(queue, suggestedQueue) \subseteq
    (CreationFields(call.queue, call.suggestedQueue)
       \cup (IF IsAdd THEN CreationFields(<<call.track>>, <<>>) ELSE {}))

\* a vote in Open Floor mode has re-sorted a queue that holds a guest's
\* approved suggestion
CreationFieldsKeptWitness ==
  /\ IsVote
  /\ call.mode = "openFloor"
  /\ OrderChanged
  /\ \E i \in 1..Len(queue) :
       queue[i].status = "approved" /\ queue[i].addedById # HostId

Missing(before, after) ==
  {i \in 1..Len(before) :
     Cardinality({k \in 1..i : before[k] = before[i]}) > Count(after, before[i])}

\* C28: an applyVote call on a track of the queue changes one entry and no
\* other; that entry's votes change by exactly 1 up or down, no other
\* voter's key in its votedBy changes, and every key of a votedBy holds
\* 1 or -1.
VotesAreIndependent ==
  (IsVote /\ Has(call.queue, call.trackId)) =>
    /\ Len(queue) = Len(call.queue)
    /\ Cardinality(Missing(call.queue, queue)) = 1
    /\ \A i \in 1..Len(queue) :
         /\ \A u \in DOMAIN queue[i].votedBy : queue[i].votedBy[u] \in {1, -1}
         /\ queue[i].id = call.trackId =>
              \E k \in 1..Len(call.queue) :
                /\ call.queue[k].id = queue[i].id
                /\ call.queue[k].addedById = queue[i].addedById
                /\ queue[i].votes - call.queue[k].votes \in {1, -1}
                /\ \A u \in Users \ {call.userId} :
                     PriorVote(queue[i], u) = PriorVote(call.queue[k], u)

\* C29: on the mock transport one vote tap by a user without a vote on the
\* track leaves that user exactly one live vote on it, in the tapped
\* direction, and one approval of a suggestion leaves the approved track
\* exactly once in the main queue.
AppliedExactlyOnce ==
  /\ (call.op = "handleVote" /\ Has(call.queue, call.trackId) /\ CallPrior = 0) =>
       /\ PriorVote(EntryOf(queue, call.trackId), call.userId) = call.direction
       /\ EntryOf(queue, call.trackId).votes =
            EntryOf(call.queue, call.trackId).votes + call.direction
  /\ (call.op = "handleApproveTrack" /\ Has(call.suggestedQueue, call.trackId)) =>
       Cardinality({i \in 1..Len(queue) : queue[i].id = call.trackId}) = 1

\* C30: while the guard of advanceQueue is set, whatever skips, remote
\* skips and track ends ask for an advance, at most one entry leaves the
\* queue, and once the reset timer is pending exactly one has left; the
\* entry that leaves is the front of the queue and becomes the head of the
\* played history; and a guard that is set is eventually reset.
AdvanceGuardHolds ==
  /\ [](client.isAdvancing => client.advanced <= 1)
  /\ []((client.isAdvancing /\ client.resetTimers > 0) =>
          (client.advanced = 1 /\ client.pendingAdvance = 0))
  /\ [][client'.advanced > client.advanced =>
          /\ Len(queue) > 0
          /\ queue' = Tail(queue)
          /\ client'.playedHistory = <<queue[1]>> \o client.playedHistory]_vars
  /\ [][queue' # queue /\ Len(queue') < Len(queue) =>
          client'.advanced = client.advanced + 1]_vars
  /\ (client.isAdvancing ~> ~client.isAdvancing)

AdvanceGuardHoldsWitness ==
  /\ client.isAdvancing
  /\ client.skipCooldown
  /\ client.refused = 2
  /\ client.advanced = 1
  /\ client.resetTimers = 1
  /\ Len(client.playedHistory) >= 1
  /\ Len(queue) >= 1

====
